---- MODULE Spec2Model ----
(***************************************************************************)
(* The grid game of part_000 (classes Coordinates, GameItem, Game) and the *)
(* settings form of scripts/index.js.                                      *)
(*                                                                         *)
(* The heap of Game objects is the sequence `games`; the page's render     *)
(* target is `container` (its class list, style, children and the click    *)
(* listeners registered on it); `game` is the global handle of index.js.   *)
(* `log` records what the last operation did (which handlers ran, what     *)
(* each searched, removed, painted or threw): it is an observation of the  *)
(* run, not a field of the program.                                        *)
(***************************************************************************)
EXTENDS Integers, Sequences, FiniteSets, TLC

VARIABLES games, game, container, log

vars == <<games, game, container, log>>

(***************************************************************************)
(* Bounds of the model.                                                    *)
(***************************************************************************)
\* The boards constructed in one run: the sum of (rows + 1) * (columns + 1)
\* over them.  9 allows one 2 x 2 board, two 1 x 1 boards one after the other,
\* or a board without cells beside one of up to three cells.
MaxArea == 9
\* The Game objects constructed in one run.
MaxGames == 2

(***************************************************************************)
(* JavaScript values: numbers, NaN and undefined.  Strings are sequences   *)
(* of characters.                                                          *)
(***************************************************************************)
Undefined == [t |-> "undefined", n |-> 0]
Null == [t |-> "null", n |-> 0]
NaN == [t |-> "NaN", n |-> 0]
Num(k) == [t |-> "number", n |-> k]
IsNum(v) == v.t = "number"

DigitChars == <<"0", "1", "2", "3", "4", "5", "6", "7", "8", "9">>

\* String(n) for an integer n >= 0, as the dataset setter converts it.
RECURSIVE NumberToString(_)
NumberToString(n) ==
  IF n < Len(DigitChars)
    THEN <<DigitChars[n + 1]>>
    ELSE NumberToString(n \div Len(DigitChars))
           \o <<DigitChars[(n % Len(DigitChars)) + 1]>>

DigitOf(ch) == CHOOSE d \in 0..(Len(DigitChars) - 1) : DigitChars[d + 1] = ch

RECURSIVE DigitsValue(_)
DigitsValue(s) ==
  IF s = <<>>
    THEN 0
    ELSE DigitsValue(SubSeq(s, 1, Len(s) - 1)) * Len(DigitChars)
           + DigitOf(s[Len(s)])

\* Unary plus on a string: "" is 0, a run of digits its value, else NaN.
StringToNumber(s) ==
  IF \A k \in 1..Len(s) : \E d \in 1..Len(DigitChars) : DigitChars[d] = s[k]
    THEN Num(DigitsValue(s))
    ELSE NaN

\* x ?? d
\* A slip the defaults could have: x || d, which also replaces 0 and NaN.
CoalesceFalsy(x, d) ==
  IF x.t \in {"undefined", "null", "NaN"} \/ x = Num(0) THEN d ELSE x

Coalesce(x, d) == IF x.t \in {"undefined", "null"} THEN d ELSE x

(***************************************************************************)
(* GAME_ITEMS: one Symbol per label; a Symbol is identified by its index.  *)
(***************************************************************************)
SymbolLabels == <<"club", "diamond", "heart", "spade">>
GAME_ITEMS == [k \in 0..(Len(SymbolLabels) - 1) |->
                 [sym |-> k, description |-> SymbolLabels[k + 1]]]

\* getRandomNumber(n): any integer of 0..n.
getRandomNumber(n) == 0..n

(***************************************************************************)
(* class Coordinates                                                       *)
(***************************************************************************)
Coordinates(i, j) == [i |-> i, j |-> j]

JsAdd(v, d) == IF IsNum(v) THEN Num(v.n + d) ELSE NaN

isValid(c, rowLength, columnLength) ==
  /\ IsNum(c.i) /\ IsNum(c.j)
  /\ c.i.n >= 0 /\ c.j.n >= 0 /\ c.i.n < rowLength /\ c.j.n < columnLength

up(c) == Coordinates(JsAdd(c.i, -1), c.j)
\* A slip down() could have: the offset of up().
downAsUp(c) == Coordinates(JsAdd(c.i, -1), c.j)
down(c) == Coordinates(JsAdd(c.i, 1), c.j)
\* A slip left() could have: the column left as it is.
leftStays(c) == Coordinates(c.i, c.j)
left(c) == Coordinates(c.i, JsAdd(c.j, -1))
\* A slip right() could have: the offset of left().
rightAsLeft(c) == Coordinates(c.i, JsAdd(c.j, -1))
right(c) == Coordinates(c.i, JsAdd(c.j, 1))

\* The grid position a Coordinates object with two numbers names.
Pos(c) == <<c.i.n, c.j.n>>

(***************************************************************************)
(* class GameItem                                                          *)
(***************************************************************************)
GameItem(id) == [label |-> id.description, id |-> id.sym, isEmpty |-> FALSE]

NoDataset == [k \in {} |-> <<>>]

\* A slip build() could have: the row written to dataset.j, the column to dataset.i.
buildSwapped(item, coordinates) ==
  IF item.isEmpty
    THEN [classList |-> {"gameCell", "empty"}, textContent |-> "",
          dataset |-> NoDataset]
    ELSE [classList |-> {"gameCell"}, textContent |-> item.label,
          dataset |-> [k \in {"i", "j"} |->
                         IF k = "i" THEN NumberToString(coordinates.j.n)
                                    ELSE NumberToString(coordinates.i.n)]]

build(item, coordinates) ==
  IF item.isEmpty
    THEN [classList |-> {"gameCell", "empty"}, textContent |-> "",
          dataset |-> NoDataset]
    ELSE [classList |-> {"gameCell"}, textContent |-> item.label,
          dataset |-> [k \in {"i", "j"} |->
                         IF k = "i" THEN NumberToString(coordinates.i.n)
                                    ELSE NumberToString(coordinates.j.n)]]

(***************************************************************************)
(* class Game.  A Game object is a record of its fields; an array is a     *)
(* function on 0..length-1; `visited` is the set of the positions (i, j)   *)
(* with this.visited[i][j] === true.                                       *)
(***************************************************************************)
DefaultCols == 6
DefaultRows == 7
DefaultContainerId == "#game"

length(a) == Cardinality(DOMAIN a)

\* The indices a loop `for (let k = 0; k < n; k++)` runs through.
LoopRange(n) == IF IsNum(n) THEN 0..(n.n - 1) ELSE {}

\* a[v] is defined: v is a number that is an index of the array a.
HasIndex(a, v) == IsNum(v) /\ v.n \in DOMAIN a

\* Every item generateGridItem() can return.
generateGridItem == {GameItem(GAME_ITEMS[r]) : r \in getRandomNumber(Len(SymbolLabels) - 1)}

\* Every grid generateGrid() can return for a Game with these rows and cols.
generateGrid(rows, cols) == [LoopRange(rows) -> [LoopRange(cols) -> generateGridItem]]

\* A slip the stop condition could have: the test of this.visited left out.
stopsAtUnmarked(grid, visited, coordinates, target) ==
  \/ ~isValid(coordinates, length(grid), length(grid[0]))
  \/ grid[coordinates.i.n][coordinates.j.n].id # target.id

\* The stop condition of findAdjacentElements (the grid has a row 0).
stopsAt(grid, visited, coordinates, target) ==
  \/ ~isValid(coordinates, length(grid), length(grid[0]))
  \/ Pos(coordinates) \in visited
  \/ grid[coordinates.i.n][coordinates.j.n].id # target.id

\* The invocations of findAdjacentElements one search is followed for: one
\* for the start and four for every cell of the grid.  A search that needs
\* more is one whose recursion does not end; the engine ends it with a
\* RangeError.
CallLimit(grid) == 4 * length(grid) * length(grid[0]) + 1

\* st = [visited, chain, threw, calls]: this.visited, the chain array, whether
\* an error was thrown (a TypeError for this.grid[0] undefined, the RangeError
\* of an endless recursion), which ends the whole search, and the number of
\* invocations so far.
RECURSIVE findAdjacentElements(_, _, _, _)
findAdjacentElements(grid, coordinates, target, st) ==
  IF st.threw THEN st
  ELSE IF 0 \notin DOMAIN grid THEN [st EXCEPT !.threw = TRUE, !.calls = @ + 1]
  ELSE IF st.calls >= CallLimit(grid)
    THEN [st EXCEPT !.threw = TRUE, !.calls = @ + 1]
  ELSE IF stopsAt(grid, st.visited, coordinates, target)
    THEN [st EXCEPT !.calls = @ + 1]
  ELSE LET s0 == [st EXCEPT !.visited = @ \cup {Pos(coordinates)},
                            !.chain = Append(@, coordinates),
                            !.calls = @ + 1]
           s1 == findAdjacentElements(grid, up(coordinates), target, s0)
           s2 == findAdjacentElements(grid, down(coordinates), target, s1)
           s3 == findAdjacentElements(grid, left(coordinates), target, s2)
       IN  findAdjacentElements(grid, right(coordinates), target, s3)

\* findConnectedGroup on Game g: [threw, chains, visited, calls].  Reading
\* this.grid[i][j] throws a TypeError when this.grid[i] is undefined.
findConnectedGroup(g, coordinates) ==
  IF ~HasIndex(g.grid, coordinates.i)
    THEN [threw |-> TRUE, chains |-> <<>>, visited |-> g.visited, calls |-> 0]
    ELSE LET row == g.grid[coordinates.i.n]
             target == IF HasIndex(row, coordinates.j)
                         THEN row[coordinates.j.n] ELSE Undefined
             st == findAdjacentElements(g.grid, coordinates, target,
                     [visited |-> g.visited, chain |-> <<>>, threw |-> FALSE,
                      calls |-> 0])
         IN  [threw |-> st.threw, chains |-> st.chain, visited |-> st.visited,
              calls |-> st.calls]

\* A slip the assignment of removeGroup could have: isEmpty = !isEmpty.
markEmptyToggle(grid, coord) ==
  [grid EXCEPT ![coord.i.n][coord.j.n].isEmpty = ~@]

\* A slip the assignment of removeGroup could have: isEmpty = false.
markEmptyFalse(grid, coord) ==
  [grid EXCEPT ![coord.i.n][coord.j.n].isEmpty = FALSE]

\* A slip the assignment of removeGroup could have: the cell replaced by an
\* item without a symbol.
markEmptyClearsId(grid, coord) ==
  [grid EXCEPT ![coord.i.n][coord.j.n] = [label |-> "", id |-> -1, isEmpty |-> TRUE]]

\* this.grid[coord.i][coord.j].isEmpty = true
markEmpty(grid, coord) ==
  [grid EXCEPT ![coord.i.n][coord.j.n].isEmpty = TRUE]

\* The forEach of removeGroup from element k on: [threw, grid].
RECURSIVE markGroup(_, _, _)
markGroup(grid, group, k) ==
  IF k > Len(group) THEN [threw |-> FALSE, grid |-> grid]
  ELSE IF ~HasIndex(grid, group[k].i) THEN [threw |-> TRUE, grid |-> grid]
  ELSE IF ~HasIndex(grid[group[k].i.n], group[k].j) THEN [threw |-> TRUE, grid |-> grid]
  ELSE markGroup(markEmpty(grid, group[k]), group, k + 1)

\* The loops of paint() from cell (i, j) on, appending to the children.
RECURSIVE paintFrom(_, _, _, _)
paintFrom(grid, i, j, children) ==
  IF i >= length(grid) THEN children
  ELSE IF j >= length(grid[i]) THEN paintFrom(grid, i + 1, 0, children)
  ELSE paintFrom(grid, i, j + 1,
         Append(children, build(grid[i][j], Coordinates(Num(i), Num(j)))))

\* The children of the container after paint() (innerHTML = "", then the cells).
paint(g) == paintFrom(g.grid, 0, 0, <<>>)

\* A slip removeGroup could have: returning early, unpainted, on an empty group.
removeGroupUnlessEmpty(g, group, children) ==
  LET m == markGroup(g.grid, group, 1)
      g1 == [g EXCEPT !.grid = m.grid]
  IN  IF m.threw \/ group = <<>>
        THEN [threw |-> m.threw, game |-> g1, painted |-> FALSE, children |-> children]
        ELSE [threw |-> FALSE, game |-> g1, painted |-> TRUE, children |-> paint(g1)]

\* removeGroup on Game g: [threw, game, painted, children].
removeGroup(g, group, children) ==
  LET m == markGroup(g.grid, group, 1)
      g1 == [g EXCEPT !.grid = m.grid]
  IN  IF m.threw
        THEN [threw |-> TRUE, game |-> g1, painted |-> FALSE, children |-> children]
        ELSE [threw |-> FALSE, game |-> g1, painted |-> TRUE, children |-> paint(g1)]

NoCoordinates == Coordinates(Undefined, Undefined)

\* A slip the test of handleClickCell could have: a misspelt class name.
isEmptyCellMisspelt(cell) == "Empty" \in cell.classList

\* cell.classList.contains("empty")
isEmptyCell(cell) == "empty" \in cell.classList

\* +cell.dataset[key]
datasetNumber(cell, key) ==
  IF key \in DOMAIN cell.dataset THEN StringToNumber(cell.dataset[key]) ELSE NaN

\* handleClickCell on Game g for an event whose target is `cell`, the container
\* holding `children`: the Game and the children afterwards, and what happened.
handleClickCell(g, cell, children) ==
  LET g0 == [g EXCEPT !.visited = {}]
      start == Coordinates(datasetNumber(cell, "i"), datasetNumber(cell, "j"))
      found == findConnectedGroup(g0, start)
      g1 == [g0 EXCEPT !.visited = found.visited]
      removed == removeGroup(g1, found.chains, children)
  IN  IF isEmptyCell(cell)
        THEN [game |-> g0, children |-> children, threw |-> FALSE,
              searched |-> FALSE, start |-> NoCoordinates, group |-> <<>>,
              painted |-> FALSE]
      ELSE IF found.threw
        THEN [game |-> g1, children |-> children, threw |-> TRUE,
              searched |-> TRUE, start |-> start, group |-> <<>>,
              painted |-> FALSE]
      ELSE [game |-> removed.game, children |-> removed.children,
            threw |-> removed.threw, searched |-> TRUE, start |-> start,
            group |-> found.chains, painted |-> removed.painted]

\* new Game(cols, rows, containerId) once init() has found the container and
\* generateGrid() has returned `grid`.
Game(cols, rows, containerId, grid) ==
  [cols |-> Coalesce(cols, Num(DefaultCols)),
   rows |-> Coalesce(rows, Num(DefaultRows)),
   containerId |-> Coalesce(containerId, [t |-> "string", n |-> 0, s |-> DefaultContainerId]),
   grid |-> grid,
   visited |-> {}]

\* A slip getContainer() could have: the element returned without the test.
getContainerUnchecked(c) == [threw |-> FALSE, container |-> c]

\* getContainer(): document.querySelector(this.containerId), an Error thrown
\* when it finds no element.
getContainer(c) == [threw |-> ~c.exists, container |-> c]

\* The container after init() of the Game stored at index h of the heap.
init(c, cols, h) ==
  [c EXCEPT !.classList = @ \cup {"game"},
            !.style = [columns |-> cols],
            !.listeners = Append(@, h)]

(***************************************************************************)
(* The page: index.js and the events of the browser.                       *)
(***************************************************************************)
NoStyle == [columns |-> Undefined]

\* The sum of (rows + 1) * (columns + 1) over the Games k.. of the heap.
RECURSIVE AreaOf(_, _)
AreaOf(gs, k) ==
  IF k > Len(gs) THEN 0
  ELSE (gs[k].rows.n + 1) * (gs[k].cols.n + 1) + AreaOf(gs, k + 1)

\* What the user can have typed into a field of the settings form.
FormValues == {<<>>} \cup {NumberToString(n) : n \in 0..MaxArea}

NoRuns == <<>>

Init ==
  /\ games = <<>>
  /\ game = 0
  /\ container \in {[exists |-> e, classList |-> {}, style |-> NoStyle,
                      children |-> <<>>, listeners |-> <<>>] : e \in BOOLEAN}
  /\ log = [op |-> "load", game |-> 0, target |-> "none", threw |-> FALSE, runs |-> NoRuns]

\* game = new Game(cols, rows), logged as `op` with the caller's record
\* `call`: the fields are set, init() looks the container up (getContainer()
\* throws when the page has none, before anything else is done), adds the
\* class, the style and the listener, then the grid is generated and painted.
constructor(cols, rows, op, call) ==
  LET fields == Game(cols, rows, Undefined, <<>>)
      h == Len(games) + 1
  IN  /\ Len(games) < MaxGames
      /\ AreaOf(games, 1) + (fields.rows.n + 1) * (fields.cols.n + 1) <= MaxArea
      /\ IF getContainer(container).threw
           THEN /\ game' = 0
                /\ log' = [op |-> op, game |-> 0, target |-> "none",
                           threw |-> TRUE, runs |-> call]
                /\ UNCHANGED <<games, container>>
           ELSE \E grid \in generateGrid(fields.rows, fields.cols) :
                  LET g == Game(cols, rows, Undefined, grid)
                  IN  /\ games' = Append(games, g)
                      /\ game' = h
                      /\ container' = [init(container, g.cols, h)
                                         EXCEPT !.children = paint(g)]
                      /\ log' = [op |-> op, game |-> h, target |-> "none",
                                 threw |-> FALSE, runs |-> call]

\* gameSettingsForm.onsubmit with the two fields holding these strings:
\* game = null, then game = new Game(columns, rows).
Submit(columnsValue, rowsValue) ==
  constructor(StringToNumber(columnsValue), StringToNumber(rowsValue),
              "submit", NoRuns)

\* What a caller of new Game(cols, rows) can pass for a dimension: nothing,
\* null or a number.
ConstructorArguments == {Undefined, Null} \cup {Num(n) : n \in 0..MaxArea}

\* const game = new Game(cols, rows), the arguments passed as they are.
Construct(cols, rows) ==
  constructor(cols, rows, "new", <<[cols |-> cols, rows |-> rows]>>)

\* The first three statements of the constructor alone, on the page as it was
\* loaded: the fields this.cols, this.rows and this.containerId that a call
\* with these arguments sets.
ConstructorFields(cols, rows) ==
  /\ games = <<>>
  /\ log' = [op |-> "fields", game |-> game, target |-> "none", threw |-> FALSE,
             runs |-> <<[cols |-> cols, rows |-> rows,
                         fields |-> Game(cols, rows, Undefined, <<>>)]>>]
  /\ UNCHANGED <<games, game, container>>

\* The click listeners of the container run in the order they were added, from
\* listener k on; a listener that throws does not stop the ones after it.
RECURSIVE dispatch(_, _, _, _, _, _)
dispatch(listeners, k, cell, gs, children, runs) ==
  IF k > Len(listeners) THEN [games |-> gs, children |-> children, runs |-> runs]
  ELSE LET h == listeners[k]
           r == handleClickCell(gs[h], cell, children)
       IN  dispatch(listeners, k + 1, cell, [gs EXCEPT ![h] = r.game], r.children,
                    Append(runs, [game |-> h, threw |-> r.threw,
                                  searched |-> r.searched, start |-> r.start,
                                  group |-> r.group, painted |-> r.painted]))

\* The element a click on the container reports as its target: the container
\* itself (k = 0) or its k-th child.
TargetElement(k) ==
  IF k = 0
    THEN [classList |-> container.classList, textContent |-> "", dataset |-> NoDataset]
    ELSE container.children[k]

\* What the target of such a click is: the container, an empty unit or a
\* filled one.
TargetKind(k) ==
  IF k = 0 THEN "container"
  ELSE IF "empty" \in container.children[k].classList THEN "empty"
  ELSE "filled"

\* A click whose target is the container (k = 0) or its k-th child.
Click(k) ==
  /\ container.exists
  /\ k \in 0..Len(container.children)
  /\ \E d \in {dispatch(container.listeners, 1, TargetElement(k), games,
                       container.children, NoRuns)} :
         /\ games' = d.games
         /\ container' = [container EXCEPT !.children = d.children]
         /\ log' = [op |-> "click", game |-> game, target |-> TargetKind(k),
                    threw |-> \E n \in 1..Len(d.runs) : d.runs[n].threw,
                    runs |-> d.runs]
         /\ UNCHANGED game

\* The in-bounds positions of Game g, as Coordinates objects.
CoordinatesOf(g) ==
  UNION {{Coordinates(Num(i), Num(j)) : j \in DOMAIN g.grid[i]} : i \in DOMAIN g.grid}

\* A row-major array of the Coordinates of S, a set of positions of Game g.
RECURSIVE arrayFrom(_, _, _, _, _)
arrayFrom(g, S, i, j, acc) ==
  IF i >= length(g.grid) THEN acc
  ELSE IF j >= length(g.grid[i]) THEN arrayFrom(g, S, i + 1, 0, acc)
  ELSE arrayFrom(g, S, i, j + 1,
         IF Coordinates(Num(i), Num(j)) \in S
           THEN Append(acc, Coordinates(Num(i), Num(j))) ELSE acc)

\* game.findConnectedGroup(coordinates), called on the current Game by a caller
\* other than the click handler, with in-bounds coordinates.
CallFindConnectedGroup(coordinates) ==
  /\ game # 0
  /\ coordinates \in CoordinatesOf(games[game])
  /\ \E r \in {findConnectedGroup(games[game], coordinates)} :
       /\ games' = [games EXCEPT ![game].visited = r.visited]
       /\ log' = [op |-> "findConnectedGroup", game |-> game, target |-> "none",
                  threw |-> r.threw,
                  runs |-> <<[game |-> game, threw |-> r.threw, searched |-> TRUE,
                              start |-> coordinates, group |-> r.chains,
                              painted |-> FALSE, calls |-> r.calls]>>]
  /\ UNCHANGED <<game, container>>

\* game.removeGroup(group), called on the current Game by a caller other than
\* the click handler, with an array of in-bounds coordinates.
CallRemoveGroup(group) ==
  /\ game # 0
  /\ \A n \in 1..Len(group) : group[n] \in CoordinatesOf(games[game])
  /\ \E r \in {removeGroup(games[game], group, container.children)} :
       /\ games' = [games EXCEPT ![game] = r.game]
       /\ container' = [container EXCEPT !.children = r.children]
       /\ log' = [op |-> "removeGroup", game |-> game, target |-> "none",
                  threw |-> r.threw,
                  runs |-> <<[game |-> game, threw |-> r.threw, searched |-> FALSE,
                              start |-> NoCoordinates, group |-> group,
                              painted |-> r.painted]>>]
  /\ UNCHANGED game

Next ==
  \/ \E columnsValue \in FormValues, rowsValue \in FormValues :
       Submit(columnsValue, rowsValue)
  \/ \E k \in 0..MaxArea : Click(k)

Spec == Init /\ [][Next]_vars

NextDefaults ==
  \/ \E columnsValue \in FormValues, rowsValue \in FormValues :
       Submit(columnsValue, rowsValue)
  \/ \E cols \in ConstructorArguments, rows \in ConstructorArguments :
       Construct(cols, rows)
  \/ \E cols \in ConstructorArguments, rows \in ConstructorArguments :
       ConstructorFields(cols, rows)

\* Games constructed by the form and by callers that pass their arguments as
\* they are.
SpecDefaults == Init /\ [][NextDefaults]_vars

\* A click on a unit that shows a filled cell.
ClickFilled ==
  \E k \in 1..Len(container.children) : TargetKind(k) = "filled" /\ Click(k)

NextPlay ==
  \/ /\ game = 0
     /\ \E columnsValue \in FormValues, rowsValue \in FormValues :
          Submit(columnsValue, rowsValue)
  \/ \E k \in 0..MaxArea : Click(k)

\* A unit showing a filled cell exists: a click on it can be made, and it
\* changes the board, so this is ENABLED <<ClickFilled>>_vars.
FilledShown ==
  \E k \in 1..Len(container.children) : TargetKind(k) = "filled"

\* The user, as long as a filled cell is shown, sooner or later clicks one:
\* WF_vars(ClickFilled) written out, with FilledShown for its ENABLED.
KeepsClicking == []<>(~FilledShown) \/ []<><<ClickFilled>>_vars

\* One board is constructed by the form and played by such a user.
SpecPlay == Init /\ [][NextPlay]_vars /\ KeepsClicking

\* One board is constructed by the form, then its findConnectedGroup is called
\* any number of times.
NextSearch ==
  \/ /\ game = 0
     /\ \E columnsValue \in FormValues, rowsValue \in FormValues :
          Submit(columnsValue, rowsValue)
  \/ \E i \in 0..MaxArea, j \in 0..MaxArea :
       CallFindConnectedGroup(Coordinates(Num(i), Num(j)))

SpecSearch == Init /\ [][NextSearch]_vars

\* One board is constructed by the form, then its removeGroup is called any
\* number of times, each time with the positions of a set in row-major order.
NextRemove ==
  \/ /\ game = 0
     /\ \E columnsValue \in FormValues, rowsValue \in FormValues :
          Submit(columnsValue, rowsValue)
  \/ /\ game # 0
     /\ \E S \in SUBSET CoordinatesOf(games[game]) :
          CallRemoveGroup(arrayFrom(games[game], S, 0, 0, <<>>))

SpecRemove == Init /\ [][NextRemove]_vars

(***************************************************************************)
(* What the properties speak of.                                           *)
(***************************************************************************)
\* The positions of a grid.
Positions(grid) == UNION {{<<i, j>> : j \in DOMAIN grid[i]} : i \in DOMAIN grid}

\* p and q are one step up, down, left or right of each other.
Adjacent(p, q) ==
  \/ p[1] = q[1] /\ (p[2] = q[2] + 1 \/ q[2] = p[2] + 1)
  \/ p[2] = q[2] /\ (p[1] = q[1] + 1 \/ q[1] = p[1] + 1)

\* The least set holding S and every position with symbol identity id that is
\* adjacent to one of its members.
RECURSIVE Grow(_, _, _)
Grow(grid, id, S) ==
  LET T == S \cup {q \in Positions(grid) :
                    grid[q[1]][q[2]].id = id /\ \E p \in S : Adjacent(p, q)}
  IN  IF T = S THEN S ELSE Grow(grid, id, T)

\* The maximal 4-connected component of same-symbol positions that holds p.
Component(grid, p) == Grow(grid, grid[p[1]][p[2]].id, {p})

\* The positions of an array of Coordinates.
ChainSet(chain) == {Pos(chain[n]) : n \in 1..Len(chain)}

\* The Coordinates a caller can pass within the bounds of the model.
SomeCoordinates == {Coordinates(Num(i), Num(j)) : i, j \in 0..MaxArea}

\* The positions of the empty cells of a grid.
EmptyCells(grid) == {p \in Positions(grid) : grid[p[1]][p[2]].isEmpty}

(***************************************************************************)
(* C1.  A findConnectedGroup call made with no visited marks set returns,  *)
(* as a set, exactly the maximal 4-connected component of the positions    *)
(* whose cell has the symbol identity of the start's cell, the start       *)
(* included, and raises no error.                                          *)
(***************************************************************************)
C1_GroupIsComponent ==
  [][\A c \in SomeCoordinates :
       (CallFindConnectedGroup(c) /\ games[game].visited = {})
         => /\ ~log'.threw
            /\ ChainSet(log'.runs[1].group) = Component(games[game].grid, Pos(c))
            /\ Pos(c) \in ChainSet(log'.runs[1].group)]_vars

\* A search without earlier marks has returned three cells of a 2 x 2 board
\* whose fourth cell holds another symbol.
C1_Witness ==
  /\ log.op = "findConnectedGroup"
  /\ games[game].visited = ChainSet(log.runs[1].group)
  /\ Cardinality(Positions(games[game].grid)) = 4
  /\ length(games[game].grid) = 2
  /\ Len(log.runs[1].group) = 3

(***************************************************************************)
(* C3.  Every findConnectedGroup call on a Board returns the result it     *)
(* would return with no visited marks set, whatever searches ran before it *)
(* (two successive calls with the same start return the same set).         *)
(***************************************************************************)
C3_SearchIgnoresEarlierMarks ==
  [][\A c \in SomeCoordinates :
       CallFindConnectedGroup(c)
         => ChainSet(log'.runs[1].group)
              = ChainSet(findConnectedGroup(
                           [games[game] EXCEPT !.visited = {}], c).chains)]_vars

(***************************************************************************)
(* C4.  On a freshly generated board, when findConnectedGroup(p) holds q,  *)
(* a following findConnectedGroup(q) on the same Board holds p and equals  *)
(* findConnectedGroup(p) as a set.                                         *)
(***************************************************************************)
C4_GroupOfAnyMember ==
  [][\A q \in SomeCoordinates :
       (/\ log.op = "findConnectedGroup"
        /\ Pos(q) \in ChainSet(log.runs[1].group)
        /\ CallFindConnectedGroup(q))
         => /\ Pos(log.runs[1].start) \in ChainSet(log'.runs[1].group)
            /\ ChainSet(log'.runs[1].group) = ChainSet(log.runs[1].group)]_vars

\* The run of the newest Game's handler in the last click.
LastRun == log.runs[Len(log.runs)]

\* The position the k-th child of the container carries in its dataset.
TargetPos(k) ==
  Pos(Coordinates(datasetNumber(container.children[k], "i"),
                  datasetNumber(container.children[k], "j")))

(***************************************************************************)
(* C2.  A click on a filled cell at position p empties, in every Board     *)
(* that has a filled cell at p, exactly the maximal 4-connected            *)
(* same-symbol group of p: the cells of the group are empty afterwards, p  *)
(* among them, and every other cell keeps its empty flag.                  *)
(***************************************************************************)
C2_ClickEmptiesGroup ==
  [][\A k \in 1..MaxArea :
       (Click(k) /\ TargetKind(k) = "filled")
         => \A h \in 1..Len(games) :
              (/\ TargetPos(k) \in Positions(games[h].grid)
               /\ TargetPos(k) \notin EmptyCells(games[h].grid))
                => /\ EmptyCells(games'[h].grid)
                        = EmptyCells(games[h].grid)
                            \cup Component(games[h].grid, TargetPos(k))
                   /\ TargetPos(k) \in EmptyCells(games'[h].grid)]_vars

\* A click on a cell of a 2 x 2 board has emptied that cell alone, and the
\* cell diagonal to it holds the same symbol and is still filled.
C2_Witness ==
  /\ log.op = "click" /\ log.target = "filled"
  /\ length(games[game].grid) = 2
  /\ Len(LastRun.group) = 1
  /\ \E p \in Positions(games[game].grid) :
       /\ p[1] # Pos(LastRun.start)[1] /\ p[2] # Pos(LastRun.start)[2]
       /\ games[game].grid[p[1]][p[2]].id
            = games[game].grid[Pos(LastRun.start)[1]][Pos(LastRun.start)[2]].id
       /\ ~games[game].grid[p[1]][p[2]].isEmpty

(***************************************************************************)
(* C5.  A click is handled by the newest Board alone: no handler of an     *)
(* earlier Board runs, and no earlier Board is modified by the click.      *)
(***************************************************************************)
C5_OnlyNewestBoardHandles ==
  [][\A k \in 0..MaxArea :
       Click(k)
         => /\ \A n \in 1..Len(log'.runs) : log'.runs[n].game = game
            /\ \A h \in 1..Len(games) : h # game => games'[h] = games[h]]_vars

(***************************************************************************)
(* C6.  Handling a click never raises an error, whichever element of the   *)
(* container is its target.                                                *)
(***************************************************************************)
C6_ClickNeverThrows == log.op = "click" => ~log.threw

(***************************************************************************)
(* C7.  No search of a click handler returns a position whose cell was     *)
(* empty in the handler's grid when the search ran.                        *)
(***************************************************************************)
C7_NoEmptyCellInSearch ==
  [][\A k \in 0..MaxArea :
       Click(k)
         => \A n \in 1..Len(log'.runs) :
              ChainSet(log'.runs[n].group)
                \cap EmptyCells(games[log'.runs[n].game].grid) = {}]_vars

(***************************************************************************)
(* C8.  In every step, every Board keeps its cells, and a cell that is     *)
(* empty before the step is empty after it.                                *)
(***************************************************************************)
C8_EmptyStaysEmpty ==
  [][\A h \in 1..Len(games) :
       /\ h <= Len(games')
       /\ Positions(games'[h].grid) = Positions(games[h].grid)
       /\ EmptyCells(games[h].grid) \subseteq EmptyCells(games'[h].grid)]_vars

\* A click has removed a group while a cell emptied by an earlier click, which
\* is not in that group, is still empty.
C8_Witness ==
  /\ log.op = "click" /\ log.target = "filled"
  /\ LastRun.group # <<>>
  /\ EmptyCells(games[game].grid) \ ChainSet(LastRun.group) # {}

(***************************************************************************)
(* C9.  A click on an empty cell changes no grid, runs no search, removes  *)
(* and repaints nothing and raises no error; the container is as before,   *)
(* so the same click can be repeated with the same outcome.                *)
(***************************************************************************)
C9_EmptyClickIsNoOp ==
  [][\A k \in 1..MaxArea :
       (Click(k) /\ TargetKind(k) = "empty")
         => /\ \A h \in 1..Len(games) : games'[h].grid = games[h].grid
            /\ \A n \in 1..Len(log'.runs) :
                 /\ ~log'.runs[n].searched
                 /\ ~log'.runs[n].painted
                 /\ ~log'.runs[n].threw
                 /\ log'.runs[n].group = <<>>
            /\ Len(log'.runs) = Len(games)
            /\ container' = container]_vars

\* An empty cell of a board that still has a filled cell has been clicked.
C9_Witness ==
  /\ log.op = "click" /\ log.target = "empty"
  /\ Len(log.runs) > 0
  /\ EmptyCells(games[game].grid) # Positions(games[game].grid)

(***************************************************************************)
(* C10.  After removeGroup(group), for any set of in-bounds positions,     *)
(* every cell of the group is empty, every other cell has the empty flag   *)
(* and the symbol it had, and the container has been repainted from the    *)
(* grid, also when the group is empty.                                     *)
(***************************************************************************)
C10_RemoveGroupFrame ==
  [][\A group \in {log'.runs[n].group : n \in 1..Len(log'.runs)} :
       (log'.op = "removeGroup" /\ CallRemoveGroup(group))
         => /\ \A p \in Positions(games[game].grid) :
                 IF p \in ChainSet(group)
                   THEN games'[game].grid[p[1]][p[2]].isEmpty
                   ELSE games'[game].grid[p[1]][p[2]]
                          = games[game].grid[p[1]][p[2]]
            /\ Positions(games'[game].grid) = Positions(games[game].grid)
            /\ log'.runs[1].painted /\ ~log'.threw
            /\ container'.children = paint(games'[game])]_vars

\* removeGroup has been given two of the four cells of a 2 x 2 board, and
\* another cell of the board is still filled.
C10_Witness ==
  /\ log.op = "removeGroup"
  /\ Len(log.runs[1].group) = 2
  /\ length(games[game].grid) = 2
  /\ Cardinality(Positions(games[game].grid)) = 4
  /\ EmptyCells(games[game].grid) # Positions(games[game].grid)

(***************************************************************************)
(* C11.  Every search a click handler starts at a position of its own grid *)
(* starts at a cell that is filled in that grid, so no group handed to     *)
(* removeGroup holds a cell that is already empty.                         *)
(***************************************************************************)
C11_SearchStartsAtFilledCell ==
  [][\A k \in 0..MaxArea :
       Click(k)
         => \A n \in 1..Len(log'.runs) :
              (/\ log'.runs[n].searched
               /\ log'.runs[n].start \in CoordinatesOf(games[log'.runs[n].game]))
                => Pos(log'.runs[n].start)
                     \notin EmptyCells(games[log'.runs[n].game].grid)]_vars

(***************************************************************************)
(* C12.  Between events, once a Game has been constructed, the container   *)
(* holds exactly R x C units of the newest Game in row-major order: unit   *)
(* number k (from 0) stands for cell (k div C, k mod C); the unit of a     *)
(* filled cell carries the cell's label and its row and column, the unit   *)
(* of an empty cell carries the empty class, no label and no position.     *)
(***************************************************************************)
C12_ContainerShowsNewestGrid ==
  game # 0 =>
    LET R == games[game].rows.n
        C == games[game].cols.n
    IN  /\ Len(container.children) = R * C
        /\ \A k \in 0..(R * C - 1) :
             LET cell == games[game].grid[k \div C][k % C]
                 unit == container.children[k + 1]
             IN  IF cell.isEmpty
                   THEN /\ "empty" \in unit.classList
                        /\ unit.textContent = ""
                        /\ DOMAIN unit.dataset = {}
                   ELSE /\ "empty" \notin unit.classList
                        /\ unit.textContent = SymbolLabels[cell.id + 1]
                        /\ DOMAIN unit.dataset = {"i", "j"}
                        /\ StringToNumber(unit.dataset["i"]) = Num(k \div C)
                        /\ StringToNumber(unit.dataset["j"]) = Num(k % C)

\* After a click on a board of two cells, shown while an earlier Game still
\* listens, the board has an empty and a filled cell.
C12_Witness ==
  /\ log.op = "click" /\ log.target = "filled"
  /\ Len(log.runs) = 2
  /\ Len(container.children) = 2
  /\ EmptyCells(games[game].grid) # {}
  /\ EmptyCells(games[game].grid) # Positions(games[game].grid)

(***************************************************************************)
(* C16.  Every Game has the rows and columns it was constructed with, each *)
(* cell holding one of the symbols of GAME_ITEMS with its label, and no    *)
(* step changes the rows, the columns or the symbol of a cell of a Game.   *)
(***************************************************************************)
C16_GridShapeAndSymbolsKept ==
  [][\A h \in 1..Len(games') :
       /\ DOMAIN games'[h].grid = 0..(games'[h].rows.n - 1)
       /\ \A i \in DOMAIN games'[h].grid :
            /\ DOMAIN games'[h].grid[i] = 0..(games'[h].cols.n - 1)
            /\ \A j \in DOMAIN games'[h].grid[i] :
                 /\ games'[h].grid[i][j].id \in DOMAIN GAME_ITEMS
                 /\ games'[h].grid[i][j].label
                      = GAME_ITEMS[games'[h].grid[i][j].id].description
                 /\ h <= Len(games)
                      => games'[h].grid[i][j].id = games[h].grid[i][j].id
       /\ h <= Len(games)
            => /\ games'[h].rows = games[h].rows
               /\ games'[h].cols = games[h].cols]_vars

\* Two of the four cells of a 2 x 2 board have been emptied by a click.
C16_Witness ==
  /\ log.op = "click" /\ log.target = "filled"
  /\ length(games[game].grid) = 2
  /\ Cardinality(Positions(games[game].grid)) = 4
  /\ Cardinality(EmptyCells(games[game].grid)) = 2

(***************************************************************************)
(* C17.  In every Game, two adjacent cells with the same symbol are both   *)
(* empty or both filled.                                                   *)
(***************************************************************************)
C17_GroupsEmptiedWhole ==
  \A h \in 1..Len(games) :
    \A p \in Positions(games[h].grid), q \in Positions(games[h].grid) :
      (Adjacent(p, q) /\ games[h].grid[p[1]][p[2]].id = games[h].grid[q[1]][q[2]].id)
        => games[h].grid[p[1]][p[2]].isEmpty = games[h].grid[q[1]][q[2]].isEmpty

\* A click has emptied a group of three cells of a 2 x 2 board; the fourth
\* cell is filled.
C17_Witness ==
  /\ log.op = "click" /\ log.target = "filled"
  /\ length(games[game].grid) = 2
  /\ Len(LastRun.group) = 3
  /\ Cardinality(EmptyCells(games[game].grid)) = 3
  /\ Cardinality(Positions(games[game].grid)) = 4

(***************************************************************************)
(* C18.  Every start position a click on a cell makes a handler pass to    *)
(* findConnectedGroup is a position of that handler's own grid.            *)
(***************************************************************************)
C18_SearchStartsInsideGrid ==
  (log.op = "click" /\ log.target = "filled")
    => \A n \in 1..Len(log.runs) :
         log.runs[n].searched
           => log.runs[n].start \in CoordinatesOf(games[log.runs[n].game])

(***************************************************************************)
(* C13.  On a page without the container, constructing a Game throws and   *)
(* leaves no Game, no listener, no class, no style and no unit behind.     *)
(***************************************************************************)
C13_MissingContainerLeavesNothing ==
  [][~container.exists
       => \A columnsValue \in FormValues, rowsValue \in FormValues :
            Submit(columnsValue, rowsValue)
              => /\ log'.threw
                 /\ games' = <<>> /\ game' = 0
                 /\ container' = container
                 /\ container'.listeners = <<>>
                 /\ container'.children = <<>>
                 /\ container'.classList = {}]_vars

\* A submit on a page without the container has thrown.
C13_Witness ==
  /\ ~container.exists
  /\ log.op = "submit" /\ log.threw
  /\ games = <<>> /\ container.listeners = <<>>

\* The value the claim gives a dimension: 6 columns or 7 rows for an argument
\* that is undefined or null, the argument itself otherwise.
C14_Expected(argument, default) ==
  IF argument = Undefined \/ argument = Null THEN Num(default) ELSE argument

(***************************************************************************)
(* C14.  The constructor sets cols to 6 and rows to 7 exactly when the     *)
(* argument is undefined or null and keeps every other argument, 0         *)
(* included; a Game with 0 columns or 0 rows has no cell and no unit, also *)
(* when the form has submitted an empty field or a 0.                      *)
(***************************************************************************)
C14_DefaultsOnlyWhenAbsent ==
  [][/\ log'.op = "fields"
          => LET call == log'.runs[1]
             IN  /\ ConstructorFields(call.cols, call.rows)
                 /\ call.fields.cols = C14_Expected(call.cols, 6)
                 /\ call.fields.rows = C14_Expected(call.rows, 7)
     /\ (log'.op = "new" /\ ~log'.threw)
          => LET call == log'.runs[1]
                 g == games'[game']
             IN  /\ g.cols = C14_Expected(call.cols, 6)
                 /\ g.rows = C14_Expected(call.rows, 7)
                 /\ length(g.grid) = g.rows.n
                 /\ \A i \in DOMAIN g.grid : length(g.grid[i]) = g.cols.n
                 /\ Len(container'.children) = g.rows.n * g.cols.n
     /\ (log'.op = "submit" /\ ~log'.threw)
          => \A empty \in {<<>>, NumberToString(0)}, other \in FormValues :
               /\ Submit(empty, other)
                    => /\ games'[game'].cols = Num(0)
                       /\ Positions(games'[game'].grid) = {}
                       /\ container'.children = <<>>
               /\ Submit(other, empty)
                    => /\ games'[game'].rows = Num(0)
                       /\ games'[game'].grid = <<>>
                       /\ container'.children = <<>>]_vars

\* new Game(0) has been called without the rows: the Game has 0 columns, the
\* 7 default rows and no unit.
C14_Witness ==
  /\ log.op = "new" /\ ~log.threw
  /\ log.runs[1].cols = Num(0) /\ log.runs[1].rows = Undefined
  /\ games[game].cols = Num(0) /\ games[game].rows = Num(7)
  /\ length(games[game].grid) = 7
  /\ container.children = <<>>

(***************************************************************************)
(* C15.  Every findConnectedGroup call with an in-bounds start ends        *)
(* without an error after at most 4 * R * C + 1 invocations of             *)
(* findAdjacentElements: it appends no position twice, at most R * C       *)
(* positions in all, and makes four further invocations for each position  *)
(* it marks and none for any other.                                        *)
(***************************************************************************)
C15_SearchTerminates ==
  log.op = "findConnectedGroup" =>
    LET run == log.runs[1]
        cells == Cardinality(Positions(games[game].grid))
    IN  /\ ~run.threw
        /\ run.calls <= 4 * cells + 1
        /\ run.calls = 4 * Len(run.group) + 1
        /\ Len(run.group) <= cells
        /\ \A m \in 1..Len(run.group), n \in 1..Len(run.group) :
             run.group[m] = run.group[n] => m = n
        /\ ChainSet(run.group) \subseteq games[game].visited

\* A search has marked and returned all four cells of a 2 x 2 board in 17
\* invocations.
C15_Witness ==
  /\ log.op = "findConnectedGroup"
  /\ length(games[game].grid) = 2
  /\ Len(log.runs[1].group) = 4
  /\ log.runs[1].calls = 17

\* The number of filled cells of a grid.
FilledCells(grid) == Cardinality(Positions(grid) \ EmptyCells(grid))

(***************************************************************************)
(* C19.  Every click on a filled cell leaves the board with fewer filled   *)
(* cells, of which there are never more than rows x cols; and when the     *)
(* user keeps clicking filled cells as long as one is shown, a constructed *)
(* board ends with all its cells empty and stays so for ever.              *)
(***************************************************************************)
C19_BoardEndsEmpty ==
  /\ [][\A k \in 1..MaxArea :
          (Click(k) /\ TargetKind(k) = "filled")
            => /\ FilledCells(games'[game].grid) < FilledCells(games[game].grid)
               /\ FilledCells(games[game].grid)
                    <= games[game].rows.n * games[game].cols.n]_vars
  /\ [](game # 0 => <>[](game # 0 /\ FilledCells(games[game].grid) = 0))

\* The last of several clicks has emptied a board of four cells.
C19_Witness ==
  /\ log.op = "click" /\ log.target = "filled"
  /\ Cardinality(Positions(games[game].grid)) = 4
  /\ FilledCells(games[game].grid) = 0
  /\ Len(LastRun.group) = 1

====
